---- MODULE Spec2Model ----
(***************************************************************************)
(* A model of package multimodal (multimodal.go): the MultiModal prompt    *)
(* builder, its add-operations, its setters, and the one-shot calls that   *)
(* submit the parts or count their tokens through a genai client.          *)
(*                                                                         *)
(* Strings whose characters the code inspects (file names, URIs, MIME      *)
(* types, response texts) are sequences of one-character strings.          *)
(* Durations are whole minutes; temperatures are tenths (4 is 0.4).        *)
(***************************************************************************)
EXTENDS Integers, Sequences, FiniteSets, TLC

VARIABLES
    modelName,       \* mm.modelName
    temperature,     \* mm.temperature
    parts,           \* mm.parts
    trim,            \* mm.trim
    verbose,         \* mm.verbose
    timeout,         \* mm.timeout
    argTemperature,  \* the temperature argument New was called with
    pc,              \* the caller: "ready" to call, "returned" from a call, or
                     \* "exited" once log.Fatalln has ended the process
    okAdds,          \* number of add-calls that returned without error
    op,              \* the operation that ran last
    err,             \* the error it returned ("nil" when none)
    result,          \* the string it returned
    count,           \* the int it returned
    events,          \* what it did to its context and client, in order
    ctxTimeout,      \* the timeout its context was created with
    sentTemperature, \* the temperature it configured the model with
    sentParts,       \* the parts of its generation request
    input            \* its arguments and what the file system, the HTTP client
                     \* or the model service answered it

vars == <<modelName, temperature, parts, trim, verbose, timeout, argTemperature,
          pc, okAdds, op, err, result, count, events, ctxTimeout,
          sentTemperature, sentParts, input>>

builder == <<modelName, temperature, parts, trim, verbose, timeout>>

config == <<modelName, temperature, trim, verbose, timeout>>

-----------------------------------------------------------------------------
(* Bounds *)

MaxParts == 2

MaxText == 2

-----------------------------------------------------------------------------
(* Program constants *)

DefaultTemperature == 4

DefaultTimeout == 2

StatusOK == 200

-----------------------------------------------------------------------------
(* Inputs *)

Temperatures == {4, 9}

Timeouts == {1, 2}

ModelNames == {"gemini-1.0-pro-vision"}

Chars == {"a", " ", "\n"}

RECURSIVE TextsUpTo(_)
TextsUpTo(n) ==
    IF n = 0 THEN {<<>>}
    ELSE LET shorter == TextsUpTo(n - 1)
         IN  shorter \cup {Append(t, c) : t \in shorter, c \in Chars}

Texts == TextsUpTo(MaxText)

image_slash == <<"i", "m", "a", "g", "e", "/">>

jpg == <<"j", "p", "g">>

jpeg == <<"j", "p", "e", "g">>

png == <<"p", "n", "g">>

Filenames ==
    { <<"f", ".", "j", "p", "g">>,
      <<"f", ".", "J", "P", "G">>,
      <<"d", ".", "x", "/", "f">> }

URIs ==
    { <<"g", "s", ":", "/", "/", "b", "/", "s", ".", "j", "p", "g">>,
      <<"g", "s", ":", "/", "/", "b", ".", "c", "/", "s">> }

URLs == { <<"h", "t", "t", "p", ":", "/", "/", "h", "/", "i">> }

Prompts == { <<"d", "e", "s", "c", "r", "i", "b", "e">> }

DataInputs == { [mimeType |-> <<"t", "e", "x", "t", "/", "p", "l", "a", "i", "n">>,
                 data |-> <<1, 2>>] }

TokenCounts == {1, 2}

-----------------------------------------------------------------------------
(* The file system, the HTTP client and the MIME table *)

FileBytes(filename) ==
    IF filename = <<"f", ".", "j", "p", "g">> THEN <<137, 80, 78, 71, 13, 10, 26, 10, 0, 0>>
    ELSE IF filename = <<"f", ".", "J", "P", "G">> THEN <<255, 216, 255>>
    ELSE <<>>

\* os.ReadFile: the whole file, or an error
ReadFile(filename) ==
    { [err |-> "nil", data |-> FileBytes(filename)],
      [err |-> "open: no such file or directory", data |-> <<>>] }

\* http.Get followed by io.ReadAll of the body
HTTPGet(URL) ==
    { [err |-> "transport", StatusCode |-> 0, readErr |-> FALSE,
       ContentType |-> <<>>, body |-> <<>>] }
    \cup
    { [err |-> "nil", StatusCode |-> s, readErr |-> r, ContentType |-> ct, body |-> <<7, 7, 7>>] :
        s \in {StatusOK, 404}, r \in BOOLEAN, ct \in {<<>>, image_slash \o png} }

\* filepath.Ext: the suffix beginning at the final dot in the final element
RECURSIVE ExtFrom(_, _)
ExtFrom(path, i) ==
    IF i < 1 \/ path[i] = "/" THEN <<>>
    ELSE IF path[i] = "." THEN SubSeq(path, i, Len(path))
    ELSE ExtFrom(path, i - 1)

Ext(path) == ExtFrom(path, Len(path))

\* strings.TrimPrefix
TrimPrefix(s, prefix) ==
    IF Len(s) >= Len(prefix) /\ SubSeq(s, 1, Len(prefix)) = prefix
    THEN SubSeq(s, Len(prefix) + 1, Len(s))
    ELSE s

\* mime.TypeByExtension: the empty string when the extension is unknown
TypeByExtension(ext) ==
    IF ext \in { <<".">> \o jpg, <<".">> \o jpeg, <<".", "J", "P", "G">> } THEN image_slash \o jpeg
    ELSE IF ext = <<".">> \o png THEN image_slash \o png
    ELSE <<>>

-----------------------------------------------------------------------------
(* genai.Part values *)

Blob(mimeType, data) ==
    [kind |-> "Blob", MIMEType |-> mimeType, Data |-> data, FileURI |-> <<>>, Text |-> <<>>]

FileData(mimeType, uri) ==
    [kind |-> "FileData", MIMEType |-> mimeType, Data |-> <<>>, FileURI |-> uri, Text |-> <<>>]

Text(s) ==
    [kind |-> "Text", MIMEType |-> <<>>, Data |-> <<>>, FileURI |-> <<>>, Text |-> s]

\* genai.ImageData(format, data): a Blob of MIME type "image/" + format
ImageData(format, data) == Blob(image_slash \o format, data)

-----------------------------------------------------------------------------
(* New *)

NoCall ==
    /\ err = "nil"
    /\ result = <<>>
    /\ count = 0
    /\ events = <<>>
    /\ ctxTimeout = 0
    /\ sentTemperature = -1
    /\ sentParts = <<>>
    /\ input = <<>>

New(name, t) ==
    /\ modelName = name
    /\ temperature = DefaultTemperature
    /\ parts = <<>>
    /\ trim = TRUE
    /\ verbose = FALSE
    /\ timeout = DefaultTimeout
    /\ argTemperature = t

Init ==
    /\ \E name \in ModelNames, t \in Temperatures : New(name, t)
    /\ pc = "ready"
    /\ okAdds = 0
    /\ op = "New"
    /\ NoCall

\* what a call that talks to no client and returns at most an error leaves behind
Returns(name, in, e) ==
    /\ pc' = "returned"
    /\ op' = name
    /\ err' = e
    /\ result' = <<>>
    /\ count' = 0
    /\ events' = <<>>
    /\ ctxTimeout' = 0
    /\ sentTemperature' = -1
    /\ sentParts' = <<>>
    /\ input' = in

\* log.Fatalln(e): the process ends inside the call
Fatalln(name, in, e) ==
    /\ pc' = "exited"
    /\ op' = name
    /\ err' = e
    /\ input' = in
    /\ UNCHANGED <<result, count, events, ctxTimeout, sentTemperature, sentParts>>

\* the caller has looked at what the call returned and goes on to its next call
Continue ==
    /\ pc = "returned"
    /\ pc' = "ready"
    /\ op' = "none"
    /\ err' = "nil"
    /\ result' = <<>>
    /\ count' = 0
    /\ events' = <<>>
    /\ ctxTimeout' = 0
    /\ sentTemperature' = -1
    /\ sentParts' = <<>>
    /\ input' = <<>>
    /\ UNCHANGED <<builder, argTemperature, okAdds>>

-----------------------------------------------------------------------------
(* Setters *)

SetTimeout ==
    /\ pc = "ready"
    /\ \E t \in Timeouts :
         /\ timeout' = t
         /\ Returns("SetTimeout", t, "nil")
    /\ UNCHANGED <<modelName, temperature, parts, trim, verbose, argTemperature, okAdds>>

SetVerbose_SetsTrim ==
    /\ pc = "ready"
    /\ \E v \in BOOLEAN :
         /\ trim' = v
         /\ Returns("SetVerbose", v, "nil")
    /\ UNCHANGED <<modelName, temperature, parts, verbose, timeout, argTemperature, okAdds>>

SetVerbose ==
    /\ pc = "ready"
    /\ \E v \in BOOLEAN :
         /\ verbose' = v
         /\ Returns("SetVerbose", v, "nil")
    /\ UNCHANGED <<modelName, temperature, parts, trim, timeout, argTemperature, okAdds>>

SetTrim ==
    /\ pc = "ready"
    /\ \E t \in BOOLEAN :
         /\ trim' = t
         /\ Returns("SetTrim", t, "nil")
    /\ UNCHANGED <<modelName, temperature, parts, verbose, timeout, argTemperature, okAdds>>

-----------------------------------------------------------------------------
(* Add-operations *)

ImageExt_NoMapping(filename) == TrimPrefix(Ext(filename), <<".">>)

\* the extension AddImage hands to genai.ImageData
ImageExt(filename) ==
    LET ext == TrimPrefix(Ext(filename), <<".">>)
    IN  IF ext = jpg THEN jpeg ELSE ext

AddImageOutcome_Prepend(filename, file) ==
    IF file.err # "nil"
    THEN [parts |-> parts, err |-> file.err]
    ELSE [parts |-> <<ImageData(TrimPrefix(Ext(filename), <<".">>), file.data)>> \o parts,
          err |-> "nil"]

\* the parts and the error after AddImage read `file` for filename
AddImageOutcome(filename, file) ==
    IF file.err # "nil"
    THEN [parts |-> parts, err |-> file.err]
    ELSE [parts |-> Append(parts, ImageData(ImageExt(filename), file.data)), err |-> "nil"]

AddImage ==
    /\ pc = "ready"
    /\ Len(parts) < MaxParts
    /\ \E filename \in Filenames : \E file \in ReadFile(filename) :
         LET out == AddImageOutcome(filename, file)
         IN  /\ parts' = out.parts
             /\ okAdds' = IF out.err = "nil" THEN okAdds + 1 ELSE okAdds
             /\ Returns("AddImage", [filename |-> filename, file |-> file], out.err)
    /\ UNCHANGED <<config, argTemperature>>

MustAddImage ==
    /\ pc = "ready"
    /\ Len(parts) < MaxParts
    /\ \E filename \in Filenames : \E file \in ReadFile(filename) :
         LET out == AddImageOutcome(filename, file)
         IN  /\ parts' = out.parts
             /\ okAdds' = IF out.err = "nil" THEN okAdds + 1 ELSE okAdds
             /\ IF out.err = "nil"
                THEN Returns("MustAddImage", [filename |-> filename, file |-> file], "nil")
                ELSE Fatalln("MustAddImage", [filename |-> filename, file |-> file], out.err)
    /\ UNCHANGED <<config, argTemperature>>

AddURI ==
    /\ pc = "ready"
    /\ Len(parts) < MaxParts
    /\ \E URI \in URIs :
         /\ parts' = Append(parts, FileData(TypeByExtension(Ext(URI)), URI))
         /\ Returns("AddURI", URI, "nil")
    /\ okAdds' = okAdds + 1
    /\ UNCHANGED <<config, argTemperature>>

AddURLOutcome_NoContentTypeCheck(resp) ==
    IF resp.err # "nil"
    THEN [parts |-> parts, err |-> "failed to download the file from URL"]
    ELSE IF resp.StatusCode # StatusOK
    THEN [parts |-> parts, err |-> "bad status"]
    ELSE IF resp.readErr
    THEN [parts |-> parts, err |-> "failed to read the response body"]
    ELSE [parts |-> Append(parts, Blob(resp.ContentType, resp.body)),
          err |-> IF resp.ContentType = <<>>
                  THEN "could see a Content-Type header for the given URL" ELSE "nil"]

\* the parts and the error after AddURL got `resp` from http.Get
AddURLOutcome(resp) ==
    IF resp.err # "nil"
    THEN [parts |-> parts, err |-> "failed to download the file from URL"]
    ELSE IF resp.StatusCode # StatusOK
    THEN [parts |-> parts, err |-> "bad status"]
    ELSE IF resp.readErr
    THEN [parts |-> parts, err |-> "failed to read the response body"]
    ELSE IF resp.ContentType = <<>>
    THEN [parts |-> parts, err |-> "could see a Content-Type header for the given URL"]
    ELSE [parts |-> Append(parts, Blob(resp.ContentType, resp.body)), err |-> "nil"]

AddURL ==
    /\ pc = "ready"
    /\ Len(parts) < MaxParts
    /\ \E URL \in URLs : \E resp \in HTTPGet(URL) :
         LET out == AddURLOutcome(resp)
         IN  /\ parts' = out.parts
             /\ okAdds' = IF out.err = "nil" THEN okAdds + 1 ELSE okAdds
             /\ Returns("AddURL", [URL |-> URL, resp |-> resp], out.err)
    /\ UNCHANGED <<config, argTemperature>>

AddData ==
    /\ pc = "ready"
    /\ Len(parts) < MaxParts
    /\ \E in \in DataInputs :
         /\ parts' = Append(parts, Blob(in.mimeType, in.data))
         /\ Returns("AddData", in, "nil")
    /\ okAdds' = okAdds + 1
    /\ UNCHANGED <<config, argTemperature>>

AddText ==
    /\ pc = "ready"
    /\ Len(parts) < MaxParts
    /\ \E prompt \in Prompts :
         /\ parts' = Append(parts, Text(prompt))
         /\ Returns("AddText", prompt, "nil")
    /\ okAdds' = okAdds + 1
    /\ UNCHANGED <<config, argTemperature>>

-----------------------------------------------------------------------------
(* The remote model service, as the genai client shows it *)

\* what model.CountTokens answers for one part or text
CountResponses ==
    { [err |-> "nil", TotalTokens |-> n] : n \in TokenCounts }
    \cup
    { [err |-> "rpc error", TotalTokens |-> 0] }

\* a *genai.GenerateContentResponse; a pointer is <<>> (nil) or <<value>>
Response(candidates) == << [Candidates |-> candidates] >>

Candidate(content) == << [Content |-> content] >>

Content(isNil, elems) == << [Parts |-> [isNil |-> isNil, elems |-> elems]] >>

EmptyResponses ==
    { <<>>,
      Response(<<>>),
      Response(<< <<>> >>),
      Response(<< Candidate(<<>>) >>),
      Response(<< Candidate(Content(TRUE, <<>>)) >>),
      Response(<< Candidate(Content(FALSE, <<>>)) >>) }

TextResponses ==
    { Response(<< Candidate(Content(FALSE, << Text(r) >>)) >>) : r \in Texts }
    \cup
    { Response(<< Candidate(Content(FALSE, << Text(<<"a">>), Text(<<" ">>) >>)),
                  Candidate(Content(FALSE, << Text(<<"\n">>) >>)) >>) }

\* what model.GenerateContent does: it panics, fails, or answers
GenerateContent ==
    { [panics |-> TRUE, err |-> "nil", res |-> <<>>] }
    \cup
    { [panics |-> FALSE, err |-> e, res |-> <<>>] : e \in {"rpc error", "context deadline exceeded"} }
    \cup
    { [panics |-> FALSE, err |-> "nil", res |-> r] : r \in EmptyResponses \cup TextResponses }

\* genai.NewClient: a client, or an error
NewClient == {"nil", "dial error"}

-----------------------------------------------------------------------------
(* Text shaping *)

\* unicode.IsSpace, on the characters a TLA+ string can hold
IsSpace(c) == c \in {"\t", "\n", "\f", "\r", " "}

RECURSIVE TrimLeftSpace(_)
TrimLeftSpace(s) ==
    IF s # <<>> /\ IsSpace(Head(s)) THEN TrimLeftSpace(Tail(s)) ELSE s

RECURSIVE TrimRightSpace(_)
TrimRightSpace(s) ==
    IF s # <<>> /\ IsSpace(s[Len(s)]) THEN TrimRightSpace(SubSeq(s, 1, Len(s) - 1)) ELSE s

\* strings.TrimSpace
TrimSpace(s) == TrimRightSpace(TrimLeftSpace(s))

\* fmt.Sprintf("%s\n", part) for a genai.Text part
Sprintf_s_nl(part) == part.Text \o <<"\n">>

\* the deferred calls of a function run last-in, first-out when it returns
RECURSIVE RunDeferred(_)
RunDeferred(stack) ==
    IF stack = <<>> THEN <<>>
    ELSE <<stack[Len(stack)]>> \o RunDeferred(SubSeq(stack, 1, Len(stack) - 1))

-----------------------------------------------------------------------------
(* Calls on a client the caller owns *)

NoRequest ==
    [err |-> "nil", result |-> <<>>, count |-> 0, events |-> <<>>,
     sentTemperature |-> -1, sentParts |-> <<>>]

CountTextTokensWithClientOutcome(resp) ==
    IF resp.err # "nil"
    THEN [NoRequest EXCEPT !.err = resp.err, !.events = <<"CountTokens">>]
    ELSE [NoRequest EXCEPT !.count = resp.TotalTokens, !.events = <<"CountTokens">>]

\* the loop of CountTokensWithClient from part i on, sum being the tokens so far
\* and resps[i] the answer of the service for part i
RECURSIVE CountTokensLoop(_, _, _)
CountTokensLoop(resps, i, sum) ==
    IF i > Len(parts)
    THEN [NoRequest EXCEPT !.count = sum,
                           !.events = [k \in 1..(i - 1) |-> "CountTokens"]]
    ELSE IF resps[i].err # "nil"
    THEN [NoRequest EXCEPT !.count = sum, !.err = resps[i].err,
                           !.events = [k \in 1..i |-> "CountTokens"]]
    ELSE CountTokensLoop(resps, i + 1, sum + resps[i].TotalTokens)

CountTokensWithClientOutcome(resps) == CountTokensLoop(resps, 1, 0)

IsEmptyResponse_NoPartsCheck(res) ==
    \/ res = <<>>
    \/ Len(res[1].Candidates) = 0
    \/ res[1].Candidates[1] = <<>>
    \/ res[1].Candidates[1][1].Content = <<>>

\* the response has nothing to render
IsEmptyResponse(res) ==
    \/ res = <<>>
    \/ Len(res[1].Candidates) = 0
    \/ res[1].Candidates[1] = <<>>
    \/ res[1].Candidates[1][1].Content = <<>>
    \/ res[1].Candidates[1][1].Content[1].Parts.isNil
    \/ Len(res[1].Candidates[1][1].Content[1].Parts.elems) = 0

Shape_TrimRight(text) == IF trim THEN TrimRightSpace(text) ELSE text

\* the string SubmitToClient returns for the text it rendered
Shape(text) == IF trim THEN TrimSpace(text) ELSE text

\* res.Candidates[0].Content.Parts[0] can be evaluated: no nil pointer on the
\* way and no index out of range, either of which panics
HasFirstPart(res) ==
    /\ res # <<>>
    /\ Len(res[1].Candidates) > 0
    /\ res[1].Candidates[1] # <<>>
    /\ res[1].Candidates[1][1].Content # <<>>
    /\ Len(res[1].Candidates[1][1].Content[1].Parts.elems) > 0

SubmitToClientOutcome_SendsFirst(gen) ==
    LET configured == [NoRequest EXCEPT !.events = <<"SetTemperature", "GenerateContent">>,
                                        !.sentTemperature = temperature,
                                        !.sentParts = IF parts = <<>> THEN parts
                                                     ELSE <<Head(parts)>>]
    IN  IF gen.panics
        THEN [configured EXCEPT !.err = "panic occurred"]
        ELSE IF gen.err # "nil"
        THEN [configured EXCEPT !.err = "unable to generate contents"]
        ELSE IF IsEmptyResponse(gen.res)
        THEN [configured EXCEPT !.err = "empty response from model"]
        ELSE LET part == gen.res[1].Candidates[1][1].Content[1].Parts.elems[1]
             IN  [configured EXCEPT !.result = Shape(Sprintf_s_nl(part))]

\* the body of SubmitToClient and, last, its deferred recover: a panic of the
\* client or of line 188 becomes the error, the named result staying ""
SubmitToClientOutcome(gen) ==
    LET configured == [NoRequest EXCEPT !.events = <<"SetTemperature", "GenerateContent">>,
                                        !.sentTemperature = temperature,
                                        !.sentParts = parts]
    IN  IF gen.panics
        THEN [configured EXCEPT !.err = "panic occurred"]
        ELSE IF gen.err # "nil"
        THEN [configured EXCEPT !.err = "unable to generate contents"]
        ELSE IF IsEmptyResponse(gen.res)
        THEN [configured EXCEPT !.err = "empty response from model"]
        ELSE IF ~HasFirstPart(gen.res)
        THEN [configured EXCEPT !.err = "panic occurred"]
        ELSE LET part == gen.res[1].Candidates[1][1].Content[1].Parts.elems[1]
             IN  [configured EXCEPT !.result = Shape(Sprintf_s_nl(part))]

\* a call has returned `out`, having made its context with timeout t (0: none)
Returned(name, in, out, t) ==
    /\ pc' = "returned"
    /\ op' = name
    /\ err' = out.err
    /\ result' = out.result
    /\ count' = out.count
    /\ events' = out.events
    /\ ctxTimeout' = t
    /\ sentTemperature' = out.sentTemperature
    /\ sentParts' = out.sentParts
    /\ input' = in

CountTextTokensWithClient ==
    /\ pc = "ready"
    /\ \E text \in Prompts, resp \in CountResponses :
         Returned("CountTextTokensWithClient", [text |-> text, resp |-> resp],
                  CountTextTokensWithClientOutcome(resp), 0)
    /\ UNCHANGED <<builder, argTemperature, okAdds>>

CountTokensWithClient ==
    /\ pc = "ready"
    /\ \E resps \in [1..Len(parts) -> CountResponses] :
         Returned("CountTokensWithClient", [resps |-> resps],
                  CountTokensWithClientOutcome(resps), 0)
    /\ UNCHANGED <<builder, argTemperature, okAdds>>

SubmitToClient ==
    /\ pc = "ready"
    /\ \E gen \in GenerateContent :
         Returned("SubmitToClient", [gen |-> gen], SubmitToClientOutcome(gen), 0)
    /\ UNCHANGED <<builder, argTemperature, okAdds>>

-----------------------------------------------------------------------------
(* Calls that make their own client *)

SubmitDeferred_NoClose(clientErr) == <<"cancel">>

\* the calls Submit has deferred when it returns, in the order it deferred them
SubmitDeferred(clientErr) ==
    IF clientErr # "nil" THEN <<"cancel">> ELSE <<"cancel", "Close">>

SubmitOutcome(clientErr, gen) ==
    IF clientErr # "nil"
    THEN [NoRequest EXCEPT !.err = "unable to create client",
                           !.events = <<"WithTimeout", "NewClient failed">>
                                      \o RunDeferred(SubmitDeferred(clientErr))]
    ELSE LET out == SubmitToClientOutcome(gen)
         IN  [out EXCEPT !.events = <<"WithTimeout", "NewClient">> \o out.events
                                    \o RunDeferred(SubmitDeferred(clientErr))]

CountTokensDeferred(clientErr) ==
    IF clientErr # "nil" THEN <<"cancel">> ELSE <<"cancel", "Close">>

CountTokensOutcome(clientErr, resps) ==
    IF clientErr # "nil"
    THEN [NoRequest EXCEPT !.err = "unable to create client",
                           !.events = <<"WithTimeout", "NewClient failed">>
                                      \o RunDeferred(CountTokensDeferred(clientErr))]
    ELSE LET out == CountTokensWithClientOutcome(resps)
         IN  [out EXCEPT !.events = <<"WithTimeout", "NewClient">> \o out.events
                                    \o RunDeferred(CountTokensDeferred(clientErr))]

CountTextTokensDeferred(clientErr) ==
    IF clientErr # "nil" THEN <<"cancel">> ELSE <<"cancel", "Close">>

CountTextTokensOutcome(clientErr, resp) ==
    IF clientErr # "nil"
    THEN [NoRequest EXCEPT !.err = "unable to create client",
                           !.events = <<"WithTimeout", "NewClient failed">>
                                      \o RunDeferred(CountTextTokensDeferred(clientErr))]
    ELSE LET out == CountTextTokensWithClientOutcome(resp)
         IN  [out EXCEPT !.events = <<"WithTimeout", "NewClient">> \o out.events
                                    \o RunDeferred(CountTextTokensDeferred(clientErr))]

Submit ==
    /\ pc = "ready"
    /\ \E clientErr \in NewClient, gen \in GenerateContent :
         Returned("Submit",
                  IF clientErr # "nil" THEN [clientErr |-> clientErr]
                  ELSE [clientErr |-> clientErr, gen |-> gen],
                  SubmitOutcome(clientErr, gen), timeout)
    /\ UNCHANGED <<builder, argTemperature, okAdds>>

CountTokens ==
    /\ pc = "ready"
    /\ \E clientErr \in NewClient, resps \in [1..Len(parts) -> CountResponses] :
         Returned("CountTokens",
                  IF clientErr # "nil" THEN [clientErr |-> clientErr]
                  ELSE [clientErr |-> clientErr, resps |-> resps],
                  CountTokensOutcome(clientErr, resps), timeout)
    /\ UNCHANGED <<builder, argTemperature, okAdds>>

CountTextTokens ==
    /\ pc = "ready"
    /\ \E clientErr \in NewClient, text \in Prompts, resp \in CountResponses :
         Returned("CountTextTokens",
                  IF clientErr # "nil" THEN [clientErr |-> clientErr, text |-> text]
                  ELSE [clientErr |-> clientErr, text |-> text, resp |-> resp],
                  CountTextTokensOutcome(clientErr, resp), timeout)
    /\ UNCHANGED <<builder, argTemperature, okAdds>>

-----------------------------------------------------------------------------

Next ==
    \/ CountTextTokensWithClient
    \/ CountTokensWithClient
    \/ SubmitToClient
    \/ Submit
    \/ CountTokens
    \/ CountTextTokens
    \/ Continue
    \/ SetTimeout
    \/ SetVerbose
    \/ SetTrim
    \/ AddImage
    \/ MustAddImage
    \/ AddURI
    \/ AddURL
    \/ AddData
    \/ AddText

Spec == Init /\ [][Next]_vars

-----------------------------------------------------------------------------
(* Vocabulary of the properties *)

AddOps == {"AddImage", "MustAddImage", "AddURI", "AddURL", "AddData", "AddText"}

SubmitOps == {"Submit", "SubmitToClient"}

CountOps == {"CountTokens", "CountTokensWithClient", "CountTextTokens",
             "CountTextTokensWithClient"}

TransientOps == {"Submit", "CountTokens", "CountTextTokens"}

\* this step is a call of operation name
Calls(name) == pc = "ready" /\ pc' # "ready" /\ op' = name

CallsOneOf(names) == pc = "ready" /\ pc' # "ready" /\ op' \in names

IsPrefix(s, t) == Len(s) <= Len(t) /\ SubSeq(t, 1, Len(s)) = s

Last(s) == s[Len(s)]

Positions(e) == {i \in DOMAIN events : events[i] = e}

RequestPositions == Positions("GenerateContent") \cup Positions("CountTokens")

-----------------------------------------------------------------------------
(* C1 *)

\* C1: the part sequence is the parts of the successful add-calls in call
\* order. Every step leaves the old sequence a prefix of the new one; an
\* add-call that returns no error appends exactly one part at the end; every
\* other step leaves the sequence alone; and the length of the sequence is the
\* number of add-calls that have returned no error.
C1_AppendOnly ==
    [][ /\ IsPrefix(parts, parts')
        /\ IF CallsOneOf(AddOps) /\ err' = "nil"
           THEN /\ Len(parts') = Len(parts) + 1
                /\ okAdds' = okAdds + 1
           ELSE /\ parts' = parts
                /\ okAdds' = okAdds
        /\ Len(parts') = okAdds' ]_vars

C1_Witness ==
    /\ pc = "returned"
    /\ op = "AddText"
    /\ err = "nil"
    /\ okAdds = 2
    /\ Len(parts) = 2
    /\ parts[1].kind = "Blob"
    /\ parts[2] = Text(input)

-----------------------------------------------------------------------------
(* C2 *)

\* the first part whose count call failed
FirstFailing(resps) ==
    CHOOSE i \in DOMAIN resps :
        /\ resps[i].err # "nil"
        /\ \A j \in 1..(i - 1) : resps[j].err = "nil"

\* the sum of the token counts of the first n parts
RECURSIVE SumOfFirst(_, _)
SumOfFirst(resps, n) ==
    IF n = 0 THEN 0 ELSE SumOfFirst(resps, n - 1) + resps[n].TotalTokens

\* C2: when the count call of some part fails, counting the parts of the
\* builder returns the error of the first failing part, has made no count call
\* after that part, and the integer it returns with the error is not the sum
\* of the parts counted before the failure.
C2_NoPartialSum ==
    ( /\ pc = "returned"
      /\ op \in {"CountTokens", "CountTokensWithClient"}
      /\ "resps" \in DOMAIN input
      /\ \E i \in DOMAIN input.resps : input.resps[i].err # "nil" )
    => LET k == FirstFailing(input.resps)
       IN  /\ err = input.resps[k].err
           /\ Cardinality(Positions("CountTokens")) = k
           /\ k > 1 => count # SumOfFirst(input.resps, k - 1)

-----------------------------------------------------------------------------
(* C3 *)

\* C3: the model is configured with the temperature the caller gave New: every
\* Submit or SubmitToClient that configures the model sets the temperature
\* argument of New.
C3_TemperatureHonored ==
    (pc = "returned" /\ op \in SubmitOps /\ Positions("SetTemperature") # {})
    => sentTemperature = argTemperature

-----------------------------------------------------------------------------
(* C4 *)

\* a response AddURL must refuse: transport failure, a status other than 200,
\* a body that cannot be read, or no Content-Type header
Refused(resp) ==
    \/ resp.err # "nil"
    \/ resp.StatusCode # 200
    \/ resp.readErr
    \/ resp.ContentType = <<>>

\* C4: a failing add-operation leaves the part sequence as it was. AddImage
\* (and MustAddImage) on a file that cannot be read, and AddURL on a transport
\* failure, a non-200 status, a body-read failure or a 200 response without
\* Content-Type, return an error and append nothing; and whenever an
\* add-operation returns an error the part sequence is unchanged.
C4_FailedAddAppendsNothing ==
    [][ /\ (CallsOneOf({"AddImage", "MustAddImage"}) /\ input'.file.err # "nil")
           => (err' # "nil" /\ parts' = parts)
        /\ (Calls("AddURL") /\ Refused(input'.resp))
           => (err' # "nil" /\ parts' = parts)
        /\ (CallsOneOf(AddOps) /\ err' # "nil")
           => parts' = parts ]_vars

C4_Witness ==
    /\ pc = "returned"
    /\ op = "AddURL"
    /\ input.resp.err = "nil"
    /\ input.resp.StatusCode = 200
    /\ ~input.resp.readErr
    /\ input.resp.ContentType = <<>>
    /\ err # "nil"
    /\ Len(parts) = 1
    /\ okAdds = 1

-----------------------------------------------------------------------------
(* C5 *)

\* C5: Submit, CountTokens and CountTextTokens try to create a client exactly
\* once; a client that was created is closed exactly once, after every
\* request made through it, on every way out of the call (success, failed
\* generation or count, empty response, deadline exceeded, recovered panic);
\* and when the client cannot be created the call returns the connection
\* error and has made no request and closed nothing.
C5_ConnectionReleased ==
    (pc = "returned" /\ op \in TransientOps)
    => /\ Cardinality(Positions("NewClient") \cup Positions("NewClient failed")) = 1
       /\ Cardinality(Positions("Close")) = Cardinality(Positions("NewClient"))
       /\ \A i \in Positions("NewClient") : \A j \in Positions("Close") : i < j
       /\ \A r \in RequestPositions :
            /\ \A i \in Positions("NewClient") : i < r
            /\ \E j \in Positions("Close") : r < j
       /\ IF input.clientErr # "nil"
          THEN /\ err = "unable to create client"
               /\ Positions("NewClient") = {}
               /\ RequestPositions = {}
               /\ result = <<>>
               /\ count = 0
          ELSE /\ err # "unable to create client"
               /\ Positions("NewClient failed") = {}

C5_Witness ==
    /\ pc = "returned"
    /\ op = "Submit"
    /\ err = "panic occurred"
    /\ events = <<"WithTimeout", "NewClient", "SetTemperature", "GenerateContent",
                  "Close", "cancel">>

-----------------------------------------------------------------------------
(* C6 *)

\* the call reached model.GenerateContent
Generated ==
    /\ pc = "returned"
    /\ op \in SubmitOps
    /\ "gen" \in DOMAIN input

\* C6: Submit and SubmitToClient return one result or one error and never end
\* the process. A panic during the call comes back as the panic error; a
\* failed generation request as the generation error; a response that is nil,
\* has no candidates, a nil first candidate, nil content, or nil or empty
\* parts as the empty-response error; in each of these the result is the empty
\* string. A response with a first part comes back without error. Whenever an
\* error is returned the result is empty.
C6_OneResultOrOneError ==
    /\ op \in SubmitOps => pc # "exited"
    /\ (pc = "returned" /\ op \in SubmitOps /\ err # "nil") => result = <<>>
    /\ Generated =>
         LET gen == input.gen
         IN  /\ gen.panics => (err = "panic occurred" /\ result = <<>>)
             /\ (~gen.panics /\ gen.err # "nil")
                => (err = "unable to generate contents" /\ result = <<>>)
             /\ (~gen.panics /\ gen.err = "nil" /\ gen.res \in EmptyResponses)
                => (err = "empty response from model" /\ result = <<>>)
             /\ (~gen.panics /\ gen.err = "nil" /\ gen.res \in TextResponses)
                => err = "nil"

C6_Witness ==
    /\ Generated
    /\ op = "Submit"
    /\ ~input.gen.panics
    /\ input.gen.err = "nil"
    /\ input.gen.res = Response(<<>>)
    /\ err = "empty response from model"
    /\ result = <<>>

-----------------------------------------------------------------------------
(* C7 *)

\* C7: Submit, SubmitToClient, CountTokens, CountTextTokens and the two
\* ...WithClient counts leave the builder as it was, the part sequence and
\* every configuration field, whether they return an error or not; and a
\* submission that reaches the model makes one generation request, which
\* carries the whole part sequence in order.
C7_CallsLeaveBuilderUnchanged ==
    [][ CallsOneOf(SubmitOps \cup CountOps)
        => /\ parts' = parts
           /\ config' = config
           /\ op' \in SubmitOps
              => LET requests == {i \in DOMAIN events' : events'[i] = "GenerateContent"}
                 IN  /\ Cardinality(requests) <= 1
                     /\ "gen" \in DOMAIN input' => Cardinality(requests) = 1
                     /\ requests # {} => sentParts' = parts ]_vars

C7_Witness ==
    /\ pc = "returned"
    /\ op = "Submit"
    /\ err = "nil"
    /\ Len(parts) = 2
    /\ parts[1] # parts[2]
    /\ sentParts = parts

-----------------------------------------------------------------------------
(* C8 *)

\* the text a successful submission rendered: the first part of the first
\* candidate of the response
RenderedText == input.gen.res[1].Candidates[1][1].Content[1].Parts.elems[1].Text

Whitespace == {"\t", "\n", "\f", "\r", " "}

\* t is s without its leading and trailing whitespace
IsStripped(t, s) ==
    /\ t # <<>> => (Head(t) \notin Whitespace /\ Last(t) \notin Whitespace)
    /\ \E i \in 0..Len(s) :
         /\ i + Len(t) <= Len(s)
         /\ \A j \in 1..Len(t) : t[j] = s[i + j]
         /\ \A j \in 1..i : s[j] \in Whitespace
         /\ \A j \in (i + Len(t) + 1)..Len(s) : s[j] \in Whitespace

\* the call returned a rendered text
Rendered == Generated /\ err = "nil"

\* C8 as amended: with the trim flag set a successful submission returns the
\* rendered text r without its leading and trailing whitespace; with the flag
\* cleared it returns r followed by one added newline, nothing stripped.
C8_TrimOrAppendNewline ==
    Rendered =>
        IF trim THEN IsStripped(result, RenderedText)
        ELSE result = RenderedText \o <<"\n">>

\* C8 as stated: as above, and with the flag cleared the returned string ends
\* in exactly one newline.
C8_ExactlyOneTrailingNewline ==
    Rendered =>
        IF trim THEN IsStripped(result, RenderedText)
        ELSE /\ result = RenderedText \o <<"\n">>
             /\ Last(result) = "\n"
             /\ Len(result) > 1 => result[Len(result) - 1] # "\n"

C8_Witness ==
    /\ Rendered
    /\ trim
    /\ RenderedText = <<" ", "a">>
    /\ result = <<"a">>

-----------------------------------------------------------------------------
(* C9 *)

\* C9: a builder starts with trim set, verbose cleared and a timeout of two
\* minutes. A configuration field changes only in a call of its own setter,
\* which sets it to its argument and changes nothing else of the builder; no
\* add-operation changes a configuration field. So the fields hold what was
\* set last, and Submit makes its context with that timeout and shapes its
\* result by that trim flag: no surrounding whitespace when set, the rendered
\* text and a newline when cleared.
C9_ConfigurationIndependent ==
    /\ (trim = TRUE /\ verbose = FALSE /\ timeout = 2 /\ parts = <<>>)
    /\ [][ /\ timeout' # timeout => Calls("SetTimeout")
           /\ trim' # trim => Calls("SetTrim")
           /\ verbose' # verbose => Calls("SetVerbose")
           /\ (modelName' = modelName /\ temperature' = temperature)
           /\ Calls("SetTimeout") => (timeout' = input' /\ parts' = parts)
           /\ Calls("SetTrim") => (trim' = input' /\ parts' = parts)
           /\ Calls("SetVerbose") => (verbose' = input' /\ parts' = parts)
           /\ CallsOneOf(AddOps) => config' = config
           /\ Calls("Submit") => ctxTimeout' = timeout
           /\ (Calls("Submit") /\ err' = "nil")
              => IF trim
                 THEN result' = <<>> \/ (Head(result') \notin Whitespace
                                         /\ Last(result') \notin Whitespace)
                 ELSE Last(result') = "\n" /\ Len(result') >= 1 ]_vars

C9_Witness ==
    /\ pc = "returned"
    /\ op = "Submit"
    /\ err = "nil"
    /\ timeout = 1
    /\ ctxTimeout = 1
    /\ ~trim
    /\ verbose
    /\ Len(parts) = 2
    /\ result = <<" ", "a", "\n">>

-----------------------------------------------------------------------------
(* C10 *)

\* e is the extension of path: what follows the last dot of its last element,
\* and empty when that element has no dot
IsExtensionOf(e, path) ==
    \/ /\ e = <<>>
       /\ \A i \in DOMAIN path :
            path[i] = "." => \E j \in i..Len(path) : path[j] = "/"
    \/ \E i \in DOMAIN path :
         /\ path[i] = "."
         /\ \A j \in (i + 1)..Len(path) : path[j] \notin {".", "/"}
         /\ e = SubSeq(path, i + 1, Len(path))

Suffixes(path) == {SubSeq(path, i, Len(path)) : i \in 1..(Len(path) + 1)}

\* C10: AddImage on a file it can read appends exactly one part, an image
\* blob whose format is the extension of the file name as given, with jpg
\* turned into jpeg, and whose bytes are the bytes of the file, so as many.
C10_AddImageAppendsImage ==
    [][ (Calls("AddImage") /\ input'.file.err = "nil")
        => /\ err' = "nil"
           /\ Len(parts') = Len(parts) + 1
           /\ SubSeq(parts', 1, Len(parts)) = parts
           /\ LET part == parts'[Len(parts')]
                  hint == SubSeq(part.MIMEType, 7, Len(part.MIMEType))
              IN  /\ part.kind = "Blob"
                  /\ SubSeq(part.MIMEType, 1, 6) = <<"i", "m", "a", "g", "e", "/">>
                  /\ \E e \in Suffixes(input'.filename) :
                       /\ IsExtensionOf(e, input'.filename)
                       /\ hint = IF e = <<"j", "p", "g">> THEN <<"j", "p", "e", "g">> ELSE e
                  /\ part.Data = input'.file.data
                  /\ Len(part.Data) = Len(input'.file.data) ]_vars

C10_Witness ==
    /\ pc = "returned"
    /\ op = "AddImage"
    /\ err = "nil"
    /\ input.filename = <<"f", ".", "j", "p", "g">>
    /\ Len(input.file.data) = 10
    /\ Len(parts) = 2
    /\ parts[2].MIMEType = <<"i", "m", "a", "g", "e", "/", "j", "p", "e", "g">>
    /\ Len(parts[2].Data) = 10

====
